---- MODULE Spec2Model ----
(***************************************************************************)
(* Model of the projection engine of financial_calculator.py:             *)
(* calculate_pension_goal and calculate_future_value.                      *)
(*                                                                         *)
(* Amounts and rates are Python floats.  A float is modelled as the exact  *)
(* rational <<n, d>> (d > 0, lowest terms) it denotes, and every           *)
(* arithmetic operation rounds its exact result to the nearest float with  *)
(* Precision significant bits, ties to even, as IEEE-754 does for binary64 *)
(* (whose precision is 53 bits; the exponent range is not modelled).       *)
(***************************************************************************)
EXTENDS Integers, Sequences, FiniteSets, TLC

\* ---------------------------------------------------------------- bounds
Precision == 8          \* significant bits of a float in the model
MaxYears == 3           \* largest simulated horizon
MaxInitUnits == 3       \* initial_value ranges over 12 * (0..MaxInitUnits)
MaxPayUnits == 1        \* yearly_payment ranges over 12 * (0..MaxPayUnits)
MaxExpense == 2         \* monthly_exp ranges over 0..MaxExpense, or None
MaxAgeGap == 2          \* current_age ranges over 67-MaxAgeGap .. 67+1

\* Python's None; a float is a pair and a year number a 1-tuple
None == <<>>
TargetAge == 67

\* ------------------------------------------------------- float arithmetic
Abs(n) == IF n < 0 THEN -n ELSE n

RECURSIVE GCD(_, _)
GCD(a, b) == IF b = 0 THEN a ELSE GCD(b, a % b)

\* the rational n/d in lowest terms with a positive denominator
Norm(n, d) ==
    LET s == IF d < 0 THEN -1 ELSE 1
        g == GCD(Abs(n), Abs(d))
    IN  <<(s * n) \div g, (s * d) \div g>>

\* an int operand converted to float
FromInt(k) == <<k, 1>>

\* a/d > 0 rounded to Precision significant bits, ties to even; <<num, den>>
RECURSIVE RoundPos(_, _)
RoundPos(a, d) ==
    IF a \div d >= 2^Precision
    THEN LET r == RoundPos(a, 2 * d) IN <<2 * r[1], r[2]>>
    ELSE IF a \div d < 2^(Precision - 1)
    THEN LET r == IF d % 2 = 0 THEN RoundPos(a, d \div 2) ELSE RoundPos(2 * a, d)
         IN  <<r[1], 2 * r[2]>>
    ELSE LET q == a \div d
             rem == a % d
             up == 2 * rem > d \/ (2 * rem = d /\ q % 2 = 1)
         IN  <<IF up THEN q + 1 ELSE q, 1>>

\* the float nearest to the rational x
Fl(x) ==
    IF x[1] = 0 THEN <<0, 1>>
    ELSE LET r == RoundPos(Abs(x[1]), x[2])
         IN  Norm((IF x[1] < 0 THEN -1 ELSE 1) * r[1], r[2])

FAdd(x, y) == Fl(Norm(x[1] * y[2] + y[1] * x[2], x[2] * y[2]))
FSub(x, y) == Fl(Norm(x[1] * y[2] - y[1] * x[2], x[2] * y[2]))
FMul(x, y) == Fl(Norm(x[1] * y[1], x[2] * y[2]))
\* y # 0
FDiv(x, y) == Fl(Norm(x[1] * y[2], x[2] * y[1]))
FNeg(x) == <<-x[1], x[2]>>
FLt(x, y) == x[1] * y[2] < y[1] * x[2]
FLe(x, y) == x[1] * y[2] <= y[1] * x[2]

\* x ** n for an int n >= 0: the exact power, rounded once
RECURSIVE ExactPow(_, _)
ExactPow(x, n) == IF n = 0 THEN <<1, 1>>
                  ELSE LET p == ExactPow(x, n - 1) IN Norm(x[1] * p[1], x[2] * p[2])
FPow(x, n) == Fl(ExactPow(x, n))

\* --------------------------------------------------------------- inputs
InitialValues == {12 * k : k \in 0..MaxInitUnits}
YearlyPayments == {12 * k : k \in 0..MaxPayUnits}
GrowthRates == {<<0, 1>>, <<1, 2>>}
SafeRates == {<<-1, 2>>, <<0, 1>>, <<1, 2>>, <<93, 256>>}
Horizons == -1..MaxYears
Expenses == {None} \cup {FromInt(e) : e \in 0..MaxExpense}
Modes == {"basic", "freedom", "pension"}
Ages == (TargetAge - MaxAgeGap)..(TargetAge + 1)

VARIABLES initial_value, yearly_payment, rate, years, monthly_exp, safe_rate,
          mode, current_age,
          values, goal_reached_year, goal, goal_reached, year, pc

params == <<initial_value, yearly_payment, rate, years, monthly_exp, safe_rate,
            mode, current_age>>
vars == <<initial_value, yearly_payment, rate, years, monthly_exp, safe_rate,
          mode, current_age,
          values, goal_reached_year, goal, goal_reached, year, pc>>

\* ------------------------------------------------ calculate_pension_goal
years_until_67(age) == IF TargetAge - age > 0 THEN TargetAge - age ELSE 0

\* numpy_financial.pv(rate, nper, pmt, fv=0) with payments at period end:
\* temp = (1+rate)**nper; fact = (temp-1)/rate; -(fv + pmt*fact)/temp
npf_pv(r, nper, pmt) ==
    LET temp == FPow(FAdd(FromInt(1), r), nper)
        fact == FDiv(FSub(temp, FromInt(1)), r)
    IN  FDiv(FNeg(FAdd(FromInt(0), FMul(pmt, fact))), temp)

\* variant: the undiscounted sum uses the monthly instead of the annual expense
calculate_pension_goal_Monthly(exp, age, sr) ==
    IF years_until_67(age) <= 0 THEN FromInt(0)
    ELSE LET annual_expenses == FMul(exp, FromInt(12))
         IN  IF FLt(FromInt(0), sr)
             THEN npf_pv(sr, years_until_67(age), FNeg(annual_expenses))
             ELSE FMul(exp, FromInt(years_until_67(age)))

calculate_pension_goal(exp, age, sr) ==
    IF years_until_67(age) <= 0 THEN FromInt(0)
    ELSE LET annual_expenses == FMul(exp, FromInt(12))
         IN  IF FLt(FromInt(0), sr)
             THEN npf_pv(sr, years_until_67(age), FNeg(annual_expenses))
             ELSE FMul(annual_expenses, FromInt(years_until_67(age)))

\* ------------------------------------------------ calculate_future_value
\* the division of line 34 raises ZeroDivisionError
DivisionByZero(exp, sr, m) == exp # None /\ m = "freedom" /\ sr[1] = 0

\* variant: every mode other than freedom gets the pension goal
GoalOf_ElseForElif(exp, sr, m, age) ==
    IF exp = None THEN None
    ELSE IF m = "freedom" THEN FDiv(FMul(exp, FromInt(12)), sr)
    ELSE calculate_pension_goal(exp, age, sr)

\* variant: an absent expense is treated as a zero goal
GoalOf_NoneAsZero(exp, sr, m, age) ==
    IF exp = None THEN (IF m = "basic" THEN None ELSE FromInt(0))
    ELSE IF m = "freedom" THEN FDiv(FMul(exp, FromInt(12)), sr)
    ELSE IF m = "pension" THEN calculate_pension_goal(exp, age, sr)
    ELSE None

\* lines 29-36, when no exception is raised
GoalOf(exp, sr, m, age) ==
    IF exp = None THEN None
    ELSE IF m = "freedom" THEN FDiv(FMul(exp, FromInt(12)), sr)
    ELSE IF m = "pension" THEN calculate_pension_goal(exp, age, sr)
    ELSE None

\* variant: the latch goal_reached is not consulted
Accumulating_NoLatch(v, g, reached) ==
    IF g = None THEN TRUE ELSE FLt(v, g)

\* variant: a value equal to the goal keeps accumulating
Accumulating_LessEqual(v, g, reached) ==
    (IF g = None THEN TRUE ELSE FLe(v, g)) /\ reached = 0

\* the condition of line 39
Accumulating(v, g, reached) ==
    (IF g = None THEN TRUE ELSE FLt(v, g)) /\ reached = 0

\* line 41
AccumulationRule(v, r, pay) ==
    FAdd(FMul(v, FAdd(FromInt(1), r)), FromInt(pay))

\* lines 48-55 (the same expression in both modes)
DrawdownRule(v, sr, exp) ==
    FSub(FMul(v, FAdd(FromInt(1), sr)), FMul(exp, FromInt(12)))

\* variant: range(1, years)
LoopDone_OffByOne(y, n) == y >= n

\* range(1, years + 1) is exhausted
LoopDone(y, n) == y > n

Init ==
    /\ initial_value \in InitialValues
    /\ yearly_payment \in YearlyPayments
    /\ rate \in GrowthRates
    /\ years \in Horizons
    /\ monthly_exp \in Expenses
    /\ safe_rate \in SafeRates
    /\ mode \in Modes
    /\ current_age \in Ages
    /\ values = <<>>
    /\ goal_reached_year = None
    /\ goal = None
    /\ goal_reached = 0
    /\ year = 0
    /\ pc = "start"

\* lines 27-36: the locals are initialised and the goal is computed
Call ==
    /\ pc = "start"
    /\ ~DivisionByZero(monthly_exp, safe_rate, mode)
    /\ values' = <<FromInt(initial_value)>>
    /\ goal_reached_year' = None
    /\ goal' = GoalOf(monthly_exp, safe_rate, mode, current_age)
    /\ goal_reached' = 0
    /\ year' = 1
    /\ pc' = "loop"
    /\ UNCHANGED params

\* line 34 with safe_rate == 0: ZeroDivisionError propagates, nothing is returned
CallRaises ==
    /\ pc = "start"
    /\ DivisionByZero(monthly_exp, safe_rate, mode)
    /\ pc' = "raised"
    /\ UNCHANGED <<params, values, goal_reached_year, goal, goal_reached, year>>

\* lines 38-41, 57: one iteration taking the accumulation branch
Accumulate ==
    /\ pc = "loop"
    /\ ~LoopDone(year, years)
    /\ Accumulating(values[Len(values)], goal, goal_reached)
    /\ values' = Append(values,
                        AccumulationRule(values[Len(values)], rate, yearly_payment))
    /\ year' = year + 1
    /\ UNCHANGED <<params, goal_reached_year, goal, goal_reached, pc>>

\* lines 38-39, 42-57: one iteration taking the else branch.  The branch is
\* entered only with a goal, hence with monthly_exp given and mode freedom
\* or pension, so new_value is always bound.
Drawdown ==
    /\ pc = "loop"
    /\ ~LoopDone(year, years)
    /\ ~Accumulating(values[Len(values)], goal, goal_reached)
    /\ goal_reached' = 1
    /\ goal_reached_year' = IF goal_reached_year = None THEN <<year>>
                            ELSE goal_reached_year
    /\ values' = Append(values,
                        DrawdownRule(values[Len(values)], safe_rate, monthly_exp))
    /\ year' = year + 1
    /\ UNCHANGED <<params, goal, pc>>

\* line 59
Return ==
    /\ pc = "loop"
    /\ LoopDone(year, years)
    /\ pc' = "done"
    /\ UNCHANGED <<params, values, goal_reached_year, goal, goal_reached, year>>

Next == Call \/ CallRaises \/ Accumulate \/ Drawdown \/ Return

Spec == Init /\ [][Next]_vars

\* ============================================================== claims
\* values[i] with Python's 0-based index
Val(i) == values[i + 1]
Zero == <<0, 1>>
Running == pc \in {"loop", "done"}
LastIndex == Len(values) - 1
\* prev*(1+growth_rate)+yearly_contribution, as the claims state the rule
AccumulationOf(prev) ==
    FAdd(FMul(prev, FAdd(FromInt(1), rate)), FromInt(yearly_payment))
\* prev*(1+safe_rate)-monthly_expense*12, as the claims state the rule
DrawdownOf(prev) ==
    FSub(FMul(prev, FAdd(FromInt(1), safe_rate)), FMul(monthly_exp, FromInt(12)))

\* C1: once goal_reached_year = y is set, every computed year before y was
\* produced by the accumulation rule and every computed year from y on by the
\* drawdown rule, whatever the later values are relative to the goal; the
\* latch goal_reached is set exactly when goal_reached_year is.
C1_LatchIrreversible ==
    Running =>
        /\ (goal_reached = 1) <=> (goal_reached_year # None)
        /\ goal_reached_year # None =>
             \A i \in 1..LastIndex :
                /\ i < goal_reached_year[1] => Val(i) = AccumulationOf(Val(i - 1))
                /\ i >= goal_reached_year[1] => Val(i) = DrawdownOf(Val(i - 1))

\* C1 witness: a finished run whose goal was reached after year 1 and in
\* which a later year started below the goal and was still drawn down.
C1_Witness ==
    /\ pc = "done"
    /\ goal_reached_year # None
    /\ goal_reached_year[1] > 1
    /\ \E i \in (goal_reached_year[1] + 1)..years :
          /\ FLt(Val(i - 1), goal)
          /\ Val(i) = DrawdownOf(Val(i - 1))
          /\ Val(i) # AccumulationOf(Val(i - 1))

\* C2: with a goal, the returned goal_reached_year is the smallest year y in
\* 1..years with values[y-1] >= goal, and values[y] is already a drawdown
\* value; it is None exactly when values[j] < goal for all j in 0..years-1,
\* and always None without a goal.
C2_SmallestYearAtOrAboveGoal ==
    pc = "done" =>
        /\ goal = None => goal_reached_year = None
        /\ goal # None =>
            /\ goal_reached_year # None =>
                 LET y == goal_reached_year[1] IN
                 /\ y \in 1..years
                 /\ ~FLt(Val(y - 1), goal)
                 /\ \A j \in 0..(y - 2) : FLt(Val(j), goal)
                 /\ Val(y) = DrawdownOf(Val(y - 1))
            /\ (goal_reached_year = None) <=>
                 (\A j \in 0..(years - 1) : FLt(Val(j), goal))

\* C2 witness: the goal is met with equality by an accumulated value.
C2_Witness ==
    /\ pc = "done"
    /\ goal # None
    /\ goal_reached_year # None
    /\ goal_reached_year[1] > 1
    /\ Val(goal_reached_year[1] - 1) = goal

\* C3: values starts with initial_value, grows by exactly one element per
\* iteration, and a returned run with years >= 1 has years + 1 elements;
\* a call with valid parameters does not raise.
C3_LengthIsHorizonPlusOne ==
    /\ Running =>
        /\ Len(values) = year
        /\ Val(0) = FromInt(initial_value)
    /\ (pc = "done" /\ years >= 1) => Len(values) = years + 1
    /\ pc = "raised" => (mode = "freedom" /\ ~FLt(Zero, safe_rate))

\* C3 witness: a returned run of the longest horizon that used both rules.
C3_Witness ==
    /\ pc = "done"
    /\ years = MaxYears
    /\ Len(values) = MaxYears + 1
    /\ goal_reached_year # None
    /\ goal_reached_year[1] \in 2..years

\* C4: when no goal is requested (no expense, or basic mode) the goal is
\* undefined, goal_reached_year stays None and every year is an accumulation
\* year; with initial_value, yearly_payment and rate all zero every value is 0.
C4_PureAccumulationWithoutGoal ==
    (Running /\ (monthly_exp = None \/ mode = "basic")) =>
        /\ goal = None
        /\ goal_reached_year = None
        /\ \A i \in 1..LastIndex : Val(i) = AccumulationOf(Val(i - 1))
        /\ (initial_value = 0 /\ yearly_payment = 0 /\ rate = Zero) =>
              \A i \in 0..LastIndex : Val(i) = Zero

\* C4 witness: a returned basic-mode run that grew by rate and contribution.
C4_Witness ==
    /\ pc = "done"
    /\ mode = "basic"
    /\ monthly_exp # None
    /\ years >= 2
    /\ yearly_payment > 0
    /\ rate # Zero
    /\ FLt(AccumulationOf(Val(0)), Val(2))

\* C5 (as claimed): freedom mode with a (positive) expense and safe_rate <= 0
\* never starts the simulation and returns nothing, so no negative goal is
\* ever produced.
C5_InvalidRateSignalled ==
    (/\ mode = "freedom"
     /\ monthly_exp # None
     /\ FLt(Zero, monthly_exp)
     /\ FLe(safe_rate, Zero)) =>
        pc \in {"start", "raised"}

\* C6 (as claimed): freedom or pension mode without an expense never starts
\* the simulation and returns nothing.
C6_MissingExpenseSignalled ==
    (mode \in {"freedom", "pension"} /\ monthly_exp = None) =>
        pc \in {"start", "raised"}

\* C6 (amended): freedom or pension mode without an expense raises nothing
\* and runs without a goal: goal and goal_reached_year are None (the expense
\* is not treated as zero) and every year is an accumulation year.
C6_MissingExpenseRunsWithoutGoal ==
    (mode \in {"freedom", "pension"} /\ monthly_exp = None) =>
        /\ pc # "raised"
        /\ Running =>
            /\ goal = None
            /\ goal_reached_year = None
            /\ goal_reached = 0
            /\ \A i \in 1..LastIndex : Val(i) = AccumulationOf(Val(i - 1))

\* C6 witness: a returned freedom-mode run without an expense.
C6_Witness ==
    /\ pc = "done"
    /\ mode = "freedom"
    /\ monthly_exp = None
    /\ years >= 2
    /\ goal = None
    /\ Val(years) # Val(0)

\* C7 (as claimed): no result is returned for years <= 0.
C7_InvalidHorizonSignalled ==
    years <= 0 => pc # "done"

\* C8: in pension mode the goal is 0 from age 67 on, is exactly
\* monthly_exp*12*(67-current_age) below 67 with safe_rate = 0, and is never
\* negative; years_until_67 is max(0, 67 - current_age).
C8_PensionGoal ==
    (Running /\ mode = "pension" /\ monthly_exp # None) =>
        /\ years_until_67(current_age) =
              (IF current_age >= 67 THEN 0 ELSE 67 - current_age)
        /\ current_age >= 67 => goal = Zero
        /\ (current_age < 67 /\ safe_rate = Zero) =>
              goal = FromInt(monthly_exp[1] * 12 * (67 - current_age))
        /\ FLe(Zero, goal)

\* C8 witness: pension goal of a positive expense two years before 67 at
\* safe_rate 0.
C8_Witness ==
    /\ pc = "done"
    /\ mode = "pension"
    /\ monthly_exp # None
    /\ monthly_exp[1] > 0
    /\ current_age = 65
    /\ safe_rate = Zero
    /\ goal = FromInt(monthly_exp[1] * 24)

\* C9 (as claimed): in pension mode below 67 with safe_rate = 0 and a positive
\* expense, a returned run that reached the goal and covers age 67 has value
\* 0 at index 67 - current_age.
C9_RunsDownToZeroBy67 ==
    (/\ pc = "done"
     /\ mode = "pension"
     /\ monthly_exp # None
     /\ FLt(Zero, monthly_exp)
     /\ safe_rate = Zero
     /\ current_age < 67
     /\ years >= 67 - current_age
     /\ goal_reached_year # None) =>
        Val(67 - current_age) = Zero

\* C10 (as claimed): in freedom mode with safe_rate > 0, from
\* goal_reached_year on no value is below its predecessor or below the goal,
\* and if values[goal_reached_year-1] equals the goal every later value does.
C10_SustainsForever ==
    (/\ Running
     /\ mode = "freedom"
     /\ monthly_exp # None
     /\ FLt(Zero, safe_rate)
     /\ goal_reached_year # None) =>
        \A i \in goal_reached_year[1]..LastIndex :
            /\ ~FLt(Val(i), Val(i - 1))
            /\ ~FLt(Val(i), goal)
            /\ Val(goal_reached_year[1] - 1) = goal => Val(i) = goal

====
